---- MODULE Spec2Model ----
(***************************************************************************)
(* A model of gcal_options.py: the slot search find_a_time, its helpers    *)
(* round_to_half_hour and string_to_datetime, the common working window    *)
(* get_min_max_start, and the wiring of main.                              *)
(*                                                                         *)
(* A datetime is a record [loc, off]: loc is the wall clock reading in     *)
(* seconds counted from 2024-12-01T00:00:00 of the datetime's own zone and *)
(* off is its UTC offset in seconds.  Attribute reads (.minute, .hour,     *)
(* .day) and replace() work on loc; comparisons work on the absolute       *)
(* instant loc - off, as Python compares aware datetimes.                  *)
(***************************************************************************)
EXTENDS Integers, Sequences, FiniteSets, TLC

VARIABLES
    pc,                 \* position: "start", "main", "call", "while", "snap", "bounds", "scan", "accept", "done", "pruned"
    caller,             \* "none", "main" (the pipeline of main) or "direct" (find_a_time called on its own)
    time_zones,         \* main: the attendees' zone identifiers, as api_queries returns them
    prefs,              \* main: [START_OF_DAY, END_OF_DAY, MEETING_WINDOW] of preferences.json
    early_start,        \* main: first component of get_min_max_start(time_zones)
    late_end,           \* main: second component of get_min_max_start(time_zones)
    availaibity,        \* find_a_time: list of {'start': str, 'end': str}
    start_time,         \* find_a_time argument
    end_time,           \* find_a_time argument
    earliest_start,     \* find_a_time argument
    latest_finish,      \* find_a_time argument
    interval,           \* find_a_time argument, minutes
    duration,           \* find_a_time argument, minutes
    meeting_times,      \* find_a_time local: the list being built and returned
    meeting_start_time, \* find_a_time local: the cursor
    meeting_end_time,   \* find_a_time local
    slot_available,     \* find_a_time local
    blocked_idx,        \* find_a_time local: position of the for loop over availaibity
    iteration_start     \* history: the cursor at the loop test that began the current iteration

vars == <<pc, caller, time_zones, prefs, early_start, late_end, availaibity,
          start_time, end_time, earliest_start, latest_finish, interval,
          duration, meeting_times, meeting_start_time, meeting_end_time,
          slot_available, blocked_idx, iteration_start>>

args == <<caller, time_zones, prefs, early_start, late_end, availaibity,
          start_time, end_time, earliest_start, latest_finish, interval,
          duration>>

----------------------------------------------------------------------------
(* Bounds of the model *)

MaxBusy == 2          \* longest busy list
MaxWindowDays == 2    \* longest search window, in days
MaxZones == 2         \* most attendee zones

----------------------------------------------------------------------------
(* datetime *)

DateTime(d, H, M, S, z) == [loc |-> d * 86400 + H * 3600 + M * 60 + S, off |-> z]

\* the value of an unset local
None == [loc |-> 0, off |-> 0]

timedelta(days, hours, minutes) == days * 86400 + hours * 3600 + minutes * 60

Plus(dt, delta) == [dt EXCEPT !.loc = @ + delta]

second(dt) == dt.loc % 60

minute(dt) == (dt.loc \div 60) % 60

hour(dt) == (dt.loc \div 3600) % 24

\* ordinal of the calendar date, 0 for 2024-12-01
toordinal(dt) == dt.loc \div 86400

\* day of the month; December 2024 and January 2025 have 31 days each
day(dt) == (toordinal(dt) % 31) + 1

\* seconds since 2024-12-01T00:00:00Z
Instant(dt) == dt.loc - dt.off

Lt(a, b) == Instant(a) < Instant(b)

Le(a, b) == Instant(a) <= Instant(b)

replace_hour(dt, H) == [dt EXCEPT !.loc = @ - hour(dt) * 3600 + H * 3600]

replace_minute(dt, M) == [dt EXCEPT !.loc = @ - minute(dt) * 60 + M * 60]

\* replace(minute=0, second=0, microsecond=0)
replace_minute_second(dt) == [dt EXCEPT !.loc = @ - (@ % 3600)]

astimezone_utc(dt) == [loc |-> dt.loc - dt.off, off |-> 0]

\* round_to_half_hour without the replace(minute=0) of line 126
round_to_half_hour_keeps_minute(meeting_time) ==
    IF minute(meeting_time) \notin {0, 30}
    THEN IF minute(meeting_time) < 30
         THEN replace_minute(meeting_time, 30)
         ELSE Plus(meeting_time, timedelta(0, 1, 0))
    ELSE meeting_time

round_to_half_hour(meeting_time) ==
    IF minute(meeting_time) \notin {0, 30}
    THEN IF minute(meeting_time) < 30
         THEN replace_minute(meeting_time, 30)
         ELSE Plus(replace_minute(meeting_time, 0), timedelta(0, 1, 0))
    ELSE meeting_time

\* a time string "%Y-%m-%dT%H:%M:%S%z" is the record of its fields
\* [d, H, M, S, z]: d the date's ordinal, z the offset in seconds
string_to_datetime(time_string) ==
    DateTime(time_string.d, time_string.H, time_string.M, time_string.S,
             time_string.z)

----------------------------------------------------------------------------
(* find_a_time, one definition per statement group of its body *)

\* lines 149-153: the cursor and the first meeting_end_time
initial_start(start) == replace_minute_second(start)

initial_end(start, dur) == Plus(start, timedelta(0, 0, dur))

\* line 154: the loop test
loop_continues(m_end, w_end) == Lt(m_end, w_end)

\* lines 156-167: the lower bound clamp, else the upper bound / day rollover;
\* gives the pair <<meeting_start_time, meeting_end_time>>
clamp_or_rollover(m_start, m_end, earliest, latest, dur) ==
    IF hour(m_start) < hour(earliest)
    THEN LET s == replace_hour(m_start, hour(earliest))
         IN  <<s, Plus(s, timedelta(0, 0, dur))>>
    ELSE IF hour(m_end) >= hour(latest) \/ day(m_end) # day(m_start)
         THEN LET s == replace_hour(Plus(m_start, timedelta(1, 0, 0)),
                                    hour(earliest))
              IN  <<s, Plus(s, timedelta(0, 0, dur))>>
         ELSE <<m_start, m_end>>

\* lines 170-172 and 177-179: the two tests of one busy interval
start_blocked(blocked, m_start) ==
    /\ Le(string_to_datetime(blocked.start), m_start)
    /\ Lt(m_start, string_to_datetime(blocked.end))

end_blocked(blocked, m_end) ==
    /\ Le(string_to_datetime(blocked.start), m_end)
    /\ Lt(m_end, string_to_datetime(blocked.end))

\* collision_jump resuming at the busy interval's start instead of its end
collision_jump_to_start(blocked) ==
    round_to_half_hour(string_to_datetime(blocked.start))

\* lines 174-175 and 181-182: where the cursor goes after a collision
collision_jump(blocked) == round_to_half_hour(string_to_datetime(blocked.end))

\* line 184: the acceptance test
accepts(available, m_start, w_end) == available /\ Lt(m_start, w_end)

\* step_advance leaving the cursor on the accepted slot
step_advance_none(m_start, step) == m_start

\* lines 186-187: the advance after an acceptance
step_advance(m_start, step) == Plus(m_start, timedelta(0, 0, step))

\* lines 188-189
derive_end(m_start, dur) == Plus(m_start, timedelta(0, 0, dur))

----------------------------------------------------------------------------
(* Time zones *)

\* zoneinfo.ZoneInfo(time_zone).utcoffset(...) in seconds; none of these
\* zones has daylight saving time, so the offset is the same at any date
utcoffset(time_zone) ==
    CASE time_zone = "Etc/GMT+12" -> -12 * 3600
      [] time_zone = "Etc/GMT+8" -> -8 * 3600
      [] time_zone = "Etc/GMT-1" -> 3600
      [] time_zone = "Africa/Lagos" -> 3600
      [] time_zone = "Asia/Kolkata" -> 5 * 3600 + 30 * 60
      [] time_zone = "Pacific/Kiritimati" -> 14 * 3600

\* datetime.datetime(2024, 5, 20, H, tzinfo=zoneinfo.ZoneInfo(time_zone));
\* 2024-05-20 is 195 days before 2024-12-01
reference_datetime(H, time_zone) == DateTime(-195, H, 0, 0, utcoffset(time_zone))

\* max() and min() of a non-empty list: the first of the greatest (least)
\* py_max comparing the wall clock readings instead of the instants
RECURSIVE py_max_wall_clock(_)
py_max_wall_clock(xs) ==
    IF Len(xs) = 1 THEN xs[1]
    ELSE LET m == py_max_wall_clock(SubSeq(xs, 1, Len(xs) - 1))
         IN  IF m.loc < xs[Len(xs)].loc THEN xs[Len(xs)] ELSE m

RECURSIVE py_max(_)
py_max(xs) ==
    IF Len(xs) = 1 THEN xs[1]
    ELSE LET m == py_max(SubSeq(xs, 1, Len(xs) - 1))
         IN  IF Lt(m, xs[Len(xs)]) THEN xs[Len(xs)] ELSE m

RECURSIVE py_min(_)
py_min(xs) ==
    IF Len(xs) = 1 THEN xs[1]
    ELSE LET m == py_min(SubSeq(xs, 1, Len(xs) - 1))
         IN  IF Lt(xs[Len(xs)], m) THEN xs[Len(xs)] ELSE m

START_OF_DAY == prefs.START_OF_DAY

END_OF_DAY == prefs.END_OF_DAY

MEETING_WINDOW == prefs.MEETING_WINDOW

WEEKEND_DAYS_AS_INT == {5, 6}

EARLIEST_MEETING_TIME == DateTime(2, 0, 0, 0, 0)

start_times(zones) == [i \in 1..Len(zones) |-> reference_datetime(START_OF_DAY, zones[i])]

end_times(zones) == [i \in 1..Len(zones) |-> reference_datetime(END_OF_DAY, zones[i])]

get_min_max_start(zones) == <<py_max(start_times(zones)), py_min(end_times(zones))>>

\* strftime('%z') as the character codes of sign, two hour digits, two
\* minute digits: '+' is 43, '-' is 45, '0' is 48
strftime_z(time_zone) ==
    LET o == utcoffset(time_zone)
        a == IF o < 0 THEN -o ELSE o
        hh == a \div 3600
        mm == (a \div 60) % 60
    IN  <<IF o < 0 THEN 45 ELSE 43,
          48 + (hh \div 10), 48 + (hh % 10), 48 + (mm \div 10), 48 + (mm % 10)>>

\* order of two strings of the same length, as sorted() compares dict keys
RECURSIVE str_lt(_, _)
str_lt(a, b) ==
    IF a = <<>> THEN FALSE
    ELSE IF Head(a) # Head(b) THEN Head(a) < Head(b)
         ELSE str_lt(Tail(a), Tail(b))

\* lines 79-81: the dict keyed by offset string; a later zone replaces an
\* earlier one of the same key
temp_holder(time_zone_list) ==
    LET keys == {strftime_z(time_zone_list[i]) : i \in 1..Len(time_zone_list)}
        last(k) == CHOOSE i \in 1..Len(time_zone_list) :
                      /\ strftime_z(time_zone_list[i]) = k
                      /\ \A j \in (i + 1)..Len(time_zone_list) :
                            strftime_z(time_zone_list[j]) # k
    IN  [k \in keys |-> time_zone_list[last(k)]]

\* lines 82-84: the values in the order of the sorted keys
RECURSIVE sorted_values(_, _)
sorted_values(holder, keys) ==
    IF keys = {} THEN <<>>
    ELSE LET k == CHOOSE x \in keys : \A y \in keys : ~str_lt(y, x)
         IN  <<holder[k]>> \o sorted_values(holder, keys \ {k})

sort_time_zones(time_zone_list) ==
    LET holder == temp_holder(time_zone_list)
    IN  sorted_values(holder, DOMAIN holder)

weekday(dt) == (toordinal(dt) + 6) % 7

\* is_weekday excluding Sunday only
is_weekday_sunday_only(meeting_time) == weekday(meeting_time) # 6

\* line 93: the test of one meeting time
is_weekday(meeting_time) == weekday(meeting_time) \notin WEEKEND_DAYS_AS_INT

\* lines 91-95: the meeting times that pass the test, in their order
prune_weekends(meeting_times_in) == SelectSeq(meeting_times_in, is_weekday)

----------------------------------------------------------------------------
(* Inputs *)

\* a time string of the given date and time of day at a UTC offset in hours
TimeString(d, H, M, S, zh) == [d |-> d, H |-> H, M |-> M, S |-> S, z |-> zh * 3600]

Busy(s, e) == [start |-> s, end |-> e]

\* busy intervals of 2024-12-03 (ordinal 2) as the free/busy query gives them
BusyChoices ==
    { Busy(TimeString(2, 9, 0, 0, 0), TimeString(2, 10, 0, 0, 0)),    \* the start of the day
      Busy(TimeString(2, 9, 10, 0, 0), TimeString(2, 9, 20, 0, 0)),   \* shorter than a meeting
      Busy(TimeString(2, 9, 40, 0, 0), TimeString(2, 9, 50, 30, 0)),  \* off the grid, with seconds
      Busy(TimeString(2, 1, 45, 0, -8), TimeString(2, 2, 15, 0, -8)), \* 09:45Z-10:15Z, written at -08:00
      Busy(TimeString(2, 8, 0, 0, 0), TimeString(2, 18, 0, 0, 0)),    \* a whole working day
      Busy(TimeString(2, 10, 0, 0, 0), TimeString(2, 9, 30, 0, 0)) }  \* end before start

RECURSIVE SeqsUpTo(_, _)
SeqsUpTo(S, n) ==
    IF n = 0 THEN {<<>>}
    ELSE LET shorter == SeqsUpTo(S, n - 1)
         IN  shorter \cup {Append(q, x) : q \in {r \in shorter : Len(r) = n - 1}, x \in S}

\* busy intervals that are given on their own
SoloBusyChoices ==
    { Busy(TimeString(2, 8, 0, 0, 0), TimeString(2, 18, 30, 0, 0)),   \* a whole working day, to the half hour
      Busy(TimeString(2, 8, 30, 0, 0), TimeString(2, 9, 20, 30, 0)) } \* over the start of the day, with seconds

BusyLists == SeqsUpTo(BusyChoices, MaxBusy) \cup {<<b>> : b \in SoloBusyChoices}

\* search windows: from midnight, from ten past nine, from half a minute to nine
StartChoices == {DateTime(2, 0, 0, 0, 0), DateTime(2, 9, 10, 0, 0), DateTime(2, 8, 59, 30, 0)}

WindowChoices == {timedelta(n, 0, 0) : n \in 0..MaxWindowDays}

\* working hours as <<earliest_start.hour, latest_finish.hour>>
HourChoices == {<<9, 11>>, <<9, 10>>}

\* <<interval, duration>> in minutes; <<30, 45>> are the defaults
StepChoices == {<<30, 45>>, <<30, 90>>, <<20, 30>>, <<20, 45>>}

Zones == {"Etc/GMT+12", "Etc/GMT+8", "Etc/GMT-1", "Africa/Lagos", "Asia/Kolkata",
          "Pacific/Kiritimati"}

\* list(set(time_zones)): distinct identifiers in any order
ZoneLists == {zs \in SeqsUpTo(Zones, MaxZones) :
                 /\ zs # <<>>
                 /\ \A i, j \in 1..Len(zs) : i # j => zs[i] # zs[j]}

\* <<EarliestStart, LatestEnd>> of preferences.json
PrefHourChoices == {<<9, 17>>, <<9, 11>>}

\* <<EarliestStart, LatestEnd, LengthOfMeetingWindow>> of preferences.json:
\* windows of a few days, and one of a week that runs over a weekend
PrefChoices ==
    {<<h[1], h[2], w>> : h \in PrefHourChoices, w \in 1..MaxWindowDays}
        \cup {<<9, 11, 7>>}

\* what get_availability(busy_times) gives in main
MainBusyLists == SeqsUpTo(BusyChoices, 1)

----------------------------------------------------------------------------
(* Initial state: the module is loaded, nothing has been called *)

Init ==
    /\ pc = "start"
    /\ caller = "none"
    /\ time_zones = <<>>
    /\ prefs = [START_OF_DAY |-> 0, END_OF_DAY |-> 0, MEETING_WINDOW |-> 0]
    /\ early_start = None
    /\ late_end = None
    /\ availaibity = <<>>
    /\ start_time = None
    /\ end_time = None
    /\ earliest_start = None
    /\ latest_finish = None
    /\ interval = 0
    /\ duration = 0
    /\ meeting_times = <<>>
    /\ meeting_start_time = None
    /\ meeting_end_time = None
    /\ slot_available = TRUE
    /\ blocked_idx = 0
    /\ iteration_start = None

locals == <<meeting_times, meeting_start_time, meeting_end_time, slot_available,
            blocked_idx, iteration_start>>

\* find_a_time called on its own, with arguments of the caller's choice
CallDirect ==
    /\ pc = "start"
    /\ caller' = "direct"
    /\ availaibity' \in BusyLists
    /\ start_time' \in StartChoices
    /\ \E w \in WindowChoices : end_time' = Plus(start_time', w)
    /\ \E h \in HourChoices :
         /\ earliest_start' = DateTime(2, h[1], 0, 0, 0)
         /\ latest_finish' = DateTime(2, h[2], 0, 0, 0)
    /\ \E c \in StepChoices :
         /\ interval' = c[1]
         /\ duration' = c[2]
    /\ pc' = "call"
    /\ UNCHANGED <<time_zones, prefs, early_start, late_end, locals>>

----------------------------------------------------------------------------
(* main *)

\* lines 23-29 and 223-225: the preferences are read, the search window is
\* set and api_queries returns the busy times and the attendees' zones
ApiQueries ==
    /\ pc = "start"
    /\ caller' = "main"
    /\ \E p \in PrefChoices :
         prefs' = [START_OF_DAY |-> p[1], END_OF_DAY |-> p[2], MEETING_WINDOW |-> p[3]]
    /\ start_time' = EARLIEST_MEETING_TIME
    /\ end_time' = Plus(start_time', timedelta(prefs'.MEETING_WINDOW, 0, 0))
    /\ availaibity' \in MainBusyLists
    /\ time_zones' \in ZoneLists
    /\ pc' = "main"
    /\ UNCHANGED <<early_start, late_end, earliest_start, latest_finish,
                   interval, duration, locals>>

\* lines 226-231: up to the call of find_a_time, whose interval and duration
\* take their defaults (lines 143-144)
Main ==
    /\ pc = "main"
    /\ LET r == get_min_max_start(time_zones)
       IN  /\ early_start' = r[1]
           /\ late_end' = r[2]
    /\ time_zones' = sort_time_zones(time_zones)
    /\ earliest_start' = astimezone_utc(early_start')
    /\ latest_finish' = astimezone_utc(late_end')
    /\ interval' = 30
    /\ duration' = 45
    /\ pc' = "call"
    /\ UNCHANGED <<caller, prefs, availaibity, start_time, end_time, locals>>

\* line 232
Prune ==
    /\ pc = "done"
    /\ caller = "main"
    /\ meeting_times' = prune_weekends(meeting_times)
    /\ pc' = "pruned"
    /\ UNCHANGED <<args, meeting_start_time, meeting_end_time, slot_available,
                   blocked_idx, iteration_start>>

----------------------------------------------------------------------------
(* find_a_time *)

\* lines 148-153
Enter ==
    /\ pc = "call"
    /\ meeting_times' = <<>>
    /\ meeting_start_time' = initial_start(start_time)
    /\ meeting_end_time' = initial_end(start_time, duration)
    /\ pc' = "while"
    /\ UNCHANGED <<args, slot_available, blocked_idx, iteration_start>>

\* line 154
While ==
    /\ pc = "while"
    /\ pc' = IF loop_continues(meeting_end_time, end_time) THEN "snap" ELSE "done"
    /\ iteration_start' = meeting_start_time
    /\ UNCHANGED <<args, meeting_times, meeting_start_time, meeting_end_time,
                   slot_available, blocked_idx>>

\* line 155
Snap ==
    /\ pc = "snap"
    /\ meeting_start_time' = round_to_half_hour(meeting_start_time)
    /\ pc' = "bounds"
    /\ UNCHANGED <<args, meeting_times, meeting_end_time, slot_available,
                   blocked_idx, iteration_start>>

\* lines 156-168
Bounds ==
    /\ pc = "bounds"
    /\ LET r == clamp_or_rollover(meeting_start_time, meeting_end_time,
                                  earliest_start, latest_finish, duration)
       IN  /\ meeting_start_time' = r[1]
           /\ meeting_end_time' = r[2]
    /\ slot_available' = TRUE
    /\ blocked_idx' = 1
    /\ pc' = IF availaibity = <<>> THEN "accept" ELSE "scan"
    /\ UNCHANGED <<args, meeting_times, iteration_start>>

\* lines 169-183, one busy interval
Scan ==
    /\ pc = "scan"
    /\ LET blocked == availaibity[blocked_idx]
       IN  IF \/ start_blocked(blocked, meeting_start_time)
              \/ end_blocked(blocked, meeting_end_time)
           THEN /\ slot_available' = FALSE
                /\ meeting_start_time' = collision_jump(blocked)
           ELSE UNCHANGED <<slot_available, meeting_start_time>>
    /\ blocked_idx' = blocked_idx + 1
    /\ pc' = IF blocked_idx = Len(availaibity) THEN "accept" ELSE "scan"
    /\ UNCHANGED <<args, meeting_times, meeting_end_time, iteration_start>>

\* lines 184-189
Accept ==
    /\ pc = "accept"
    /\ IF accepts(slot_available, meeting_start_time, end_time)
       THEN /\ meeting_times' = Append(meeting_times, meeting_start_time)
            /\ meeting_start_time' = step_advance(meeting_start_time, interval)
       ELSE UNCHANGED <<meeting_times, meeting_start_time>>
    /\ meeting_end_time' = derive_end(meeting_start_time', duration)
    /\ pc' = "while"
    /\ UNCHANGED <<args, slot_available, blocked_idx, iteration_start>>

Next == CallDirect \/ ApiQueries \/ Main \/ Enter \/ While \/ Snap \/ Bounds \/ Scan \/ Accept \/ Prune

Spec == Init /\ [][Next]_vars

\* the steps of find_a_time
FindATime == Enter \/ While \/ Snap \/ Bounds \/ Scan \/ Accept

\* once called, find_a_time is run: the interpreter takes its next step
\* whenever there is one
FairSpec == Spec /\ WF_vars(FindATime)

----------------------------------------------------------------------------
(* Properties *)

\* find_a_time has returned: meeting_times is its result (line 190)
Returned == pc = "done"

Slots == {meeting_times[i] : i \in 1..Len(meeting_times)}

BusyIntervals == {availaibity[i] : i \in 1..Len(availaibity)}

\* the instant t lies in [b.start, b.end)
Contains(b, t) ==
    /\ Instant(string_to_datetime(b.start)) <= t
    /\ t < Instant(string_to_datetime(b.end))

SlotEnd(s) == Instant(s) + timedelta(0, 0, duration)

\* C1 (as claimed): no busy interval [b.start, b.end) contains a returned
\* instant s, and none contains s + duration.
C1_NoBusyContainsStartOrEnd ==
    Returned =>
        \A s \in Slots, b \in BusyIntervals :
            ~Contains(b, Instant(s)) /\ ~Contains(b, SlotEnd(s))

\* C2 (as claimed): for every returned instant s and busy interval b the
\* ranges [s, s + duration) and [b.start, b.end) are disjoint.
C2_MeetingsDisjointFromBusy ==
    Returned =>
        \A s \in Slots, b \in BusyIntervals :
            LET bs == Instant(string_to_datetime(b.start))
                be == Instant(string_to_datetime(b.end))
            IN  bs < be => ~(Instant(s) < be /\ bs < SlotEnd(s))

\* C3: a call of find_a_time on a search window with start < end (duration
\* and step positive, any busy list) reaches its return statement.
C3_Terminates ==
    (pc = "call" /\ Lt(start_time, end_time) /\ interval > 0 /\ duration > 0)
        ~> Returned

\* C3 witness: find_a_time returned from a window with start < end and a busy
\* list holding the same interval twice, after passing through the loop.
C3_Witness ==
    /\ Returned
    /\ Lt(start_time, end_time)
    /\ Len(availaibity) = 2
    /\ availaibity[1] = availaibity[2]
    /\ blocked_idx > 0

\* C4 (as claimed): every returned instant s has hour(s) >= earliest_start.hour,
\* and s + duration is on the same calendar day with an hour below
\* latest_finish.hour.
C4_WorkingWindow ==
    Returned =>
        \A s \in Slots :
            LET e == Plus(s, timedelta(0, 0, duration))
            IN  /\ hour(s) >= hour(earliest_start)
                /\ toordinal(e) = toordinal(s)
                /\ hour(e) < hour(latest_finish)

\* the instants of the half-hour grid inside the search window, in UTC
GridInstants ==
    {DateTime(0, 0, 30 * k, 0, 0) :
        k \in (Instant(start_time) \div 1800)..(Instant(end_time) \div 1800)}

\* C5 (as claimed): with an empty busy list and step 30, every grid instant t
\* of the search window with hour(t) >= earliest_start.hour, t + duration on
\* the same day with hour(t + duration) < latest_finish.hour, and
\* t + duration < window end is returned, on every day of the window.
C5_EmptyBusyComplete ==
    (Returned /\ availaibity = <<>> /\ interval = 30) =>
        \A t \in GridInstants :
            LET e == Plus(t, timedelta(0, 0, duration))
            IN  (/\ Le(start_time, t)
                 /\ hour(t) >= hour(earliest_start)
                 /\ toordinal(e) = toordinal(t)
                 /\ hour(e) < hour(latest_finish)
                 /\ Lt(e, end_time))
                => \E s \in Slots : Instant(s) = Instant(t)

\* C6 (as claimed): a duration longer than the daily working window gives no
\* candidate at all.
C6_TooLongDurationGivesNothing ==
    (Returned /\ duration * 60 > (hour(latest_finish) - hour(earliest_start)) * 3600)
        => meeting_times = <<>>

\* C7 (as claimed): in main, when get_min_max_start gives commonStart >=
\* commonEnd, find_a_time returns the empty list.
C7_DegenerateWindowGivesNothing ==
    (Returned /\ caller = "main" /\ Le(late_end, early_start))
        => meeting_times = <<>>

\* C8: every instant in the list find_a_time builds has minute 0 or 30,
\* whatever the step and the minutes of the busy intervals' ends.
C8_GridInvariant ==
    \A s \in Slots : minute(s) \in {0, 30}

\* C8 witness: with a step of 20 minutes and a busy interval ending at
\* 09:50:30, find_a_time returned the slot at which the cursor resumed after
\* colliding with that interval (10:00:30), and an earlier slot before it.
C8_Witness ==
    /\ Returned
    /\ interval = 20
    /\ \E b \in BusyIntervals :
         /\ minute(string_to_datetime(b.end)) = 50
         /\ \E s \in Slots :
               s = round_to_half_hour(string_to_datetime(b.end))
         /\ \E s \in Slots : Lt(s, string_to_datetime(b.start))

\* C9 (as claimed): every returned instant s satisfies
\* start_time <= s < end_time.
C9_InsideSearchWindow ==
    Returned => \A s \in Slots : Le(start_time, s) /\ Lt(s, end_time)

\* C10: get_min_max_start returns, as commonStart, one of the attendees'
\* START_OF_DAY instants that none of the others is later than, and as
\* commonEnd one of their END_OF_DAY instants that none is earlier than;
\* stated of the step of main that calls it on time_zones.
C10_CommonWindow ==
    [][pc = "main" =>
         /\ \E i \in 1..Len(time_zones) :
               early_start' = reference_datetime(START_OF_DAY, time_zones[i])
         /\ \A i \in 1..Len(time_zones) :
               Instant(reference_datetime(START_OF_DAY, time_zones[i]))
                   <= Instant(early_start')
         /\ \E i \in 1..Len(time_zones) :
               late_end' = reference_datetime(END_OF_DAY, time_zones[i])
         /\ \A i \in 1..Len(time_zones) :
               Instant(late_end')
                   <= Instant(reference_datetime(END_OF_DAY, time_zones[i]))]_vars

\* C10 witness: main got its bounds from two zones, the start from the zone
\* at +05:30 and the end from the zone at +14:00, whose START_OF_DAY falls on
\* the previous UTC date.
C10_Witness ==
    /\ caller = "main"
    /\ pc = "call"
    /\ early_start = reference_datetime(START_OF_DAY, "Asia/Kolkata")
    /\ late_end = reference_datetime(END_OF_DAY, "Pacific/Kiritimati")
    /\ toordinal(astimezone_utc(reference_datetime(START_OF_DAY, "Pacific/Kiritimati")))
           < toordinal(early_start)

\* main has replaced time_zones by sort_time_zones(time_zones) (line 227)
ZonesSorted == caller = "main" /\ pc \notin {"start", "main"}

\* C11 (as claimed): the list sort_time_zones returns is ordered by UTC
\* offset descending: for positions i < j the offset at i is at least the
\* offset at j, for any mix of positive, zero and negative offsets.
C11_OffsetDescending ==
    ZonesSorted =>
        \A i, j \in 1..Len(time_zones) :
            i < j => utcoffset(time_zones[i]) >= utcoffset(time_zones[j])

\* C12 (as claimed): sort_time_zones returns a permutation of the distinct
\* identifiers it is given, also when two of them have the same offset;
\* stated of the step of main that calls it on time_zones.
C12_Permutation ==
    [][pc = "main" =>
         /\ Len(time_zones') = Len(time_zones)
         /\ {time_zones'[i] : i \in 1..Len(time_zones')}
                = {time_zones[i] : i \in 1..Len(time_zones)}]_vars

\* the positions of meeting_times whose weekday is not excluded
KeptPositions ==
    {i \in 1..Len(meeting_times) : weekday(meeting_times[i]) \notin WEEKEND_DAYS_AS_INT}

\* C13: prune_weekends returns exactly the subsequence of its input, in the
\* input's order, of the instants whose weekday is not excluded: the k-th
\* element of the output is the k-th kept element of the input, and nothing
\* else is in it; stated of the step of main that calls it on meeting_times.
C13_OrderPreservingFilter ==
    [][(pc = "done" /\ pc' = "pruned") =>
         /\ Len(meeting_times') = Cardinality(KeptPositions)
         /\ \A i \in KeptPositions :
               meeting_times'[Cardinality({j \in KeptPositions : j <= i})]
                   = meeting_times[i]]_vars

\* C13 witness: main pruned the result of a search over a week that began on
\* Tuesday 2024-12-03: slots of Friday and of the Monday after it are in the
\* list, Friday's before Monday's, and none of the weekend between them.
C13_Witness ==
    /\ pc = "pruned"
    /\ prefs.MEETING_WINDOW = 7
    /\ \E i, j \in 1..Len(meeting_times) :
          /\ i < j
          /\ toordinal(meeting_times[i]) = 5
          /\ toordinal(meeting_times[j]) = 8
    /\ \A s \in Slots : toordinal(s) \notin {6, 7}

\* C14 (as claimed): a search window with end_time <= start_time is rejected
\* with an error before the loop is entered: find_a_time does not reach its
\* return statement and hand back a list.
C14_InvalidWindowRejected ==
    Returned => Lt(start_time, end_time)

\* C15 (as claimed): a busy list holding an interval with end <= start is
\* rejected with an error: find_a_time does not return a list computed as
\* if that interval were absent.
C15_MalformedIntervalRejected ==
    (Returned /\ Lt(start_time, end_time)) =>
        \A b \in BusyIntervals :
            Lt(string_to_datetime(b.start), string_to_datetime(b.end))

\* C16 (as claimed): at the loop test, at every collision test and at the
\* acceptance test meeting_end_time is meeting_start_time + duration.
C16_EndDerivedFromCursor ==
    pc \in {"while", "scan", "accept"} =>
        meeting_end_time = Plus(meeting_start_time, timedelta(0, 0, duration))

\* C17 (as claimed): every assignment to the cursor inside the loop (the
\* snap, the clamp or rollover, each collision jump of a scan, the step
\* advance) leaves it not earlier than it was just before, and an iteration
\* after which the loop goes on leaves it strictly later than it was at the
\* iteration's start.
C17_CursorMonotonic ==
    [][/\ pc \in {"snap", "bounds", "scan", "accept"}
            => Le(meeting_start_time, meeting_start_time')
       /\ (pc = "accept" /\ loop_continues(meeting_end_time', end_time))
            => Lt(iteration_start, meeting_start_time')]_vars

\* C18: the list find_a_time builds and returns is strictly increasing in
\* time at every step (each instant is later than the one before it), so no
\* instant is in it twice, whatever the order of the busy list and whatever
\* the step and the duration.
C18_StrictlyIncreasing ==
    \A i \in 1..(Len(meeting_times) - 1) :
        Lt(meeting_times[i], meeting_times[i + 1])

\* C18 witness: find_a_time returned at least three instants, with a step of
\* 20 minutes, from a busy list whose second interval begins before its
\* first, some of them before and some after the later interval.
C18_Witness ==
    /\ Returned
    /\ interval = 20
    /\ Len(meeting_times) >= 3
    /\ Len(availaibity) = 2
    /\ Lt(string_to_datetime(availaibity[2].start),
          string_to_datetime(availaibity[1].start))
    /\ \E s \in Slots : Lt(s, string_to_datetime(availaibity[1].start))
    /\ \E s \in Slots : Le(string_to_datetime(availaibity[1].end), s)

\* the working window of the calendar day of ordinal D, in UTC
WindowStart(D) == DateTime(D, hour(earliest_start), 0, 0, 0)

WindowEnd(D) == DateTime(D, hour(latest_finish), 0, 0, 0)

\* the busy interval b covers the whole working window of day D
FullDayBlock(b, D) ==
    /\ hour(earliest_start) < hour(latest_finish)
    /\ Le(string_to_datetime(b.start), WindowStart(D))
    /\ Le(WindowEnd(D), string_to_datetime(b.end))

\* no busy interval reaches into the working window of day D
FreeDay(D) ==
    \A b \in BusyIntervals :
        \/ Le(string_to_datetime(b.end), WindowStart(D))
        \/ Le(WindowEnd(D), string_to_datetime(b.start))

\* the days the search window touches
WindowDays == toordinal(start_time)..toordinal(end_time)

\* C19 (as claimed): when one busy interval covers the whole working window
\* of a day D, no returned instant is on day D, and the slots of day D + 1
\* are returned when D + 1 is free and inside the search window: with step
\* 30, every grid instant t of day D + 1 with hour(t) >= earliest_start.hour,
\* t + duration on the same day with an hour below latest_finish.hour, and
\* t + duration before the window's end.
C19_FullDayBlock ==
    Returned =>
        \A D \in WindowDays :
            (\E b \in BusyIntervals : FullDayBlock(b, D)) =>
                /\ \A s \in Slots : toordinal(astimezone_utc(s)) # D
                /\ (FreeDay(D + 1) /\ interval = 30) =>
                      \A t \in GridInstants :
                          LET e == Plus(t, timedelta(0, 0, duration))
                          IN  (/\ toordinal(t) = D + 1
                               /\ hour(t) >= hour(earliest_start)
                               /\ toordinal(e) = toordinal(t)
                               /\ hour(e) < hour(latest_finish)
                               /\ Lt(e, end_time))
                              => \E s \in Slots : Instant(s) = Instant(t)

\* the least instant >= t whose minute is 0 or 30: t itself when its minute
\* is 0 or 30, else the next multiple of half an hour
LeastGridInstant(t) ==
    IF minute(t) \in {0, 30} THEN t
    ELSE [t EXCEPT !.loc = ((@ \div 1800) + 1) * 1800]

\* C20 (as claimed): when the only busy interval covers the start of the
\* first day's working window and ends at e inside that window, and the
\* slot at the least grid instant r >= e fits the working window and the
\* search window, the first returned instant is r.
C20_ResumesAtIntervalEnd ==
    (Returned /\ Len(availaibity) = 1) =>
        LET D == toordinal(start_time)
            bs == string_to_datetime(availaibity[1].start)
            e == string_to_datetime(availaibity[1].end)
            r == LeastGridInstant(e)
            r_end == Plus(r, timedelta(0, 0, duration))
        IN  (/\ hour(earliest_start) < hour(latest_finish)
             /\ Le(bs, WindowStart(D))
             /\ Lt(WindowStart(D), e)
             /\ Lt(e, WindowEnd(D))
             /\ Le(start_time, r)
             /\ toordinal(r_end) = toordinal(r)
             /\ hour(r_end) < hour(latest_finish)
             /\ Lt(r_end, end_time))
            => /\ meeting_times # <<>>
               /\ Instant(meeting_times[1]) = Instant(r)

====
